---- MODULE Spec2Model ----
(***************************************************************************)
(* Model of src/src/table-block.ts (Rindrics/tblparse): detection of table *)
(* blocks in a worksheet, title/header/data classification of a block and  *)
(* extraction of a block's cells as a dense grid of strings.               *)
(*                                                                         *)
(* JavaScript strings are sequences of one-character strings, so that      *)
(* trim() and String() are computed and not assumed.  A worksheet is a     *)
(* sparse map: a function whose domain is the set of cell addresses that   *)
(* hold a cell object.  A regular expression is the set of strings its     *)
(* test() accepts (patterns without the g/y flags, whose test() is         *)
(* stateless).                                                             *)
(***************************************************************************)
EXTENDS Integers, Sequences, FiniteSets, TLC

VARIABLES sheet, ref, labelColumn,
          pc, row, blocks, currentBlock, blockStartRow,
          dataOf, data,
          block, options, op, titleRow, headerRow, structure, shared,
          firstBlocks, calls, workbook, loaded

vars == <<sheet, ref, labelColumn, pc, row, blocks, currentBlock, blockStartRow,
          dataOf, data, block, options, op, titleRow, headerRow, structure, shared,
          firstBlocks, calls, workbook, loaded>>

segVars == <<sheet, ref, labelColumn, pc, row, blocks, currentBlock, blockStartRow,
             dataOf, data>>

clsVars == <<block, options, op, titleRow, headerRow, structure, shared>>

\* the result of an earlier detectTableBlocks call, and the workbook of loadSheet
auxVars == <<firstBlocks, calls, workbook, loaded>>

(***************************************************************************)
(* Bounds of the model.                                                    *)
(***************************************************************************)
\* rows of the worksheet universe (1-based rows 1..MaxRow)
MaxRow == 3
\* columns of the worksheet universe (0-based columns 0..MaxCol-1)
MaxCol == 2
\* cell objects a worksheet holds at most
MaxCells == 3
\* rows of a block handed to the classifier
MaxBlockRows == 3
\* largest columnCount of a row handed to the classifier
MaxColumnCount == 2
\* sheets of a workbook handed to loadSheet
MaxSheets == 2

(***************************************************************************)
(* Values, cells and strings.                                              *)
(***************************************************************************)
\* the value `undefined` of a cell's v field
UndefinedV == [type |-> "undefined", s |-> <<>>, n |-> 0]

StrV(s) == [type |-> "string", s |-> s, n |-> 0]

NumV(n) == [type |-> "number", s |-> <<>>, n |-> n]

\* an absent string (string | undefined)
UndefinedStr == [def |-> FALSE, s |-> <<>>]

SomeStr(s) == [def |-> TRUE, s |-> s]

Digits == <<"0", "1", "2", "3", "4", "5", "6", "7", "8", "9">>

RECURSIVE NumToString(_)
NumToString(n) ==
    IF n < 10 THEN <<Digits[n + 1]>>
    ELSE NumToString(n \div 10) \o <<Digits[(n % 10) + 1]>>

\* String(v) of JavaScript
String(v) ==
    CASE v.type = "string" -> v.s
      [] v.type = "number" -> NumToString(v.n)
      [] OTHER -> <<"u", "n", "d", "e", "f", "i", "n", "e", "d">>

RECURSIVE TrimStart(_)
TrimStart(s) ==
    IF s # <<>> /\ Head(s) = " " THEN TrimStart(Tail(s)) ELSE s

RECURSIVE TrimEnd(_)
TrimEnd(s) ==
    IF s # <<>> /\ s[Len(s)] = " " THEN TrimEnd(SubSeq(s, 1, Len(s) - 1)) ELSE s

\* String.prototype.trim
Trim(s) == TrimEnd(TrimStart(s))

(***************************************************************************)
(* The worksheet (XLSX.WorkSheet) as the code reads it.                    *)
(***************************************************************************)
ColNames == <<"A", "B", "C", "D", "E", "F">>

\* XLSX.utils.encode_cell({r, c}): 0-based row and column to an A1 address
encode_cell(r, c) == [col |-> ColNames[c + 1], row |-> r + 1]

\* labelColumn + row
LabelAddress(lc, r) == [col |-> lc, row |-> r]

\* sheet[address]: the cell object, or undefined
Cell(sh, a) ==
    IF a \in DOMAIN sh THEN [present |-> TRUE, v |-> sh[a].v]
    ELSE [present |-> FALSE, v |-> UndefinedV]

\* sheet["!ref"] || "A1", decoded by XLSX.utils.decode_range: the end corner
decode_range(rf) ==
    IF rf.def THEN [e |-> [r |-> rf.er, c |-> rf.ec]]
    ELSE [e |-> [r |-> 0, c |-> 0]]

\* the row extent taken as the 0-based end row
maxRowOf_ZeroBased(rf) == decode_range(rf).e.r

maxRowOf(rf) == decode_range(rf).e.r + 1

maxColOf(rf) == decode_range(rf).e.c + 1

\* occupancy without the test for the empty string
IsOccupied_EmptyStringCounts(cell) ==
    /\ cell.present
    /\ cell.v.type # "undefined"

\* occupancy without the test for an undefined value
IsOccupied_UndefinedCounts(cell) ==
    /\ cell.present
    /\ ~(cell.v.type = "string" /\ cell.v.s = <<>>)

\* cell && cell.v !== undefined && cell.v !== ""
IsOccupied(cell) ==
    /\ cell.present
    /\ cell.v.type # "undefined"
    /\ ~(cell.v.type = "string" /\ cell.v.s = <<>>)

RECURSIVE CountColumns(_, _, _, _)
CountColumns(sh, r, col, maxCol) ==
    IF col < maxCol
    THEN (IF IsOccupied(Cell(sh, encode_cell(r - 1, col))) THEN 1 ELSE 0)
         + CountColumns(sh, r, col + 1, maxCol)
    ELSE 0

analyzeRow(sh, r, maxCol, lc) ==
    LET labelCell == Cell(sh, LabelAddress(lc, r))
        labelValue == IF labelCell.present
                      THEN (IF labelCell.v.type = "string"
                            THEN SomeStr(Trim(labelCell.v.s))
                            ELSE SomeStr(String(labelCell.v)))
                      ELSE UndefinedStr
    IN [row |-> r, columnCount |-> CountColumns(sh, r, 0, maxCol),
        labelValue |-> labelValue]

\* Math.max(...xs) over the non-empty lists the code passes
MaxOf(S) == CHOOSE y \in S : \A z \in S : z <= y

\* a block whose maxColumnCount is the width of its first row
createBlock_FirstRowWidth(rows, startRow) ==
    [startRow |-> startRow,
     endRow |-> rows[Len(rows)].row,
     rows |-> rows,
     maxColumnCount |-> rows[1].columnCount]

createBlock(rows, startRow) ==
    [startRow |-> startRow,
     endRow |-> rows[Len(rows)].row,
     rows |-> rows,
     maxColumnCount |-> MaxOf({rows[i].columnCount : i \in 1..Len(rows)})]

(***************************************************************************)
(* Inputs of the segmentation pipeline.                                    *)
(***************************************************************************)
Addresses == {[col |-> ColNames[c], row |-> r] : c \in 1..MaxCol, r \in 1..MaxRow}

CellObjects == {[v |-> UndefinedV], [v |-> StrV(<<>>)],
                [v |-> StrV(<<" ", "h">>)], [v |-> NumV(7)]}

Sheets == UNION {[K -> CellObjects] :
                   K \in {S \in SUBSET Addresses : Cardinality(S) <= MaxCells}}

Refs == {[def |-> FALSE, er |-> 0, ec |-> 0]}
          \cup {[def |-> TRUE, er |-> r, ec |-> c] : r \in 0..(MaxRow - 1), c \in 0..(MaxCol - 1)}

LabelColumns == {ColNames[c] : c \in 1..MaxCol}

NoBlock == [startRow |-> 0, endRow |-> 0, rows |-> <<>>, maxColumnCount |-> 0]

NoOptions == [headerPattern |-> [def |-> FALSE, accepts |-> {}], noHeader |-> "undefined"]

UndefinedRow == [row |-> 0, columnCount |-> 0, labelValue |-> UndefinedStr]

NoStructure == [titleRow |-> UndefinedRow, headerRow |-> UndefinedRow, dataRows |-> <<>>]

ClsIdle ==
    /\ block = NoBlock
    /\ options = NoOptions
    /\ op = "none"
    /\ titleRow = UndefinedRow
    /\ headerRow = UndefinedRow
    /\ structure = NoStructure
    /\ shared = FALSE

\* a workbook without sheet names (SheetNames undefined) and without sheets
NoWorkbook == [SheetNames |-> [def |-> FALSE, names |-> <<>>], Sheets |-> <<>>]

NotLoaded == [status |-> "none", error |-> "", sheet |-> <<>>]

AuxIdle ==
    /\ firstBlocks = <<>>
    /\ calls = "first"
    /\ workbook = NoWorkbook
    /\ loaded = NotLoaded

Init ==
    /\ sheet \in Sheets
    /\ ref \in Refs
    /\ labelColumn \in LabelColumns
    /\ pc = "scan"
    /\ row = 1
    /\ blocks = <<>>
    /\ currentBlock = <<>>
    /\ blockStartRow = -1
    /\ dataOf = NoBlock
    /\ data = <<>>
    /\ ClsIdle
    /\ AuxIdle

(***************************************************************************)
(* detectTableBlocks: one action per iteration of the row loop, one for    *)
(* the code after the loop.                                                *)
(***************************************************************************)
\* a row step that closes a block without unsetting the start-row marker
ScanRow_KeepsStartRow ==
    /\ pc = "scan"
    /\ row <= maxRowOf(ref)
    /\ LET rowInfo == analyzeRow(sheet, row, maxColOf(ref), labelColumn) IN
         IF rowInfo.columnCount = 0
         THEN IF Len(currentBlock) > 0
              THEN /\ blocks' = Append(blocks, createBlock(currentBlock, blockStartRow))
                   /\ currentBlock' = <<>>
                   /\ UNCHANGED blockStartRow
              ELSE UNCHANGED <<blocks, currentBlock, blockStartRow>>
         ELSE /\ blockStartRow' = (IF blockStartRow = -1 THEN row ELSE blockStartRow)
              /\ currentBlock' = Append(currentBlock, rowInfo)
              /\ UNCHANGED blocks
    /\ row' = row + 1
    /\ UNCHANGED <<sheet, ref, labelColumn, pc, dataOf, data>>
    /\ UNCHANGED clsVars
    /\ UNCHANGED auxVars

ScanRow ==
    /\ pc = "scan"
    /\ row <= maxRowOf(ref)
    /\ LET rowInfo == analyzeRow(sheet, row, maxColOf(ref), labelColumn) IN
         IF rowInfo.columnCount = 0
         THEN IF Len(currentBlock) > 0
              THEN /\ blocks' = Append(blocks, createBlock(currentBlock, blockStartRow))
                   /\ currentBlock' = <<>>
                   /\ blockStartRow' = -1
              ELSE UNCHANGED <<blocks, currentBlock, blockStartRow>>
         ELSE /\ blockStartRow' = (IF blockStartRow = -1 THEN row ELSE blockStartRow)
              /\ currentBlock' = Append(currentBlock, rowInfo)
              /\ UNCHANGED blocks
    /\ row' = row + 1
    /\ UNCHANGED <<sheet, ref, labelColumn, pc, dataOf, data>>
    /\ UNCHANGED clsVars
    /\ UNCHANGED auxVars

FinishScan ==
    /\ pc = "scan"
    /\ row > maxRowOf(ref)
    /\ blocks' = (IF Len(currentBlock) > 0
                  THEN Append(blocks, createBlock(currentBlock, blockStartRow))
                  ELSE blocks)
    /\ pc' = "done"
    /\ UNCHANGED <<sheet, ref, labelColumn, row, currentBlock, blockStartRow, dataOf, data>>
    /\ UNCHANGED clsVars
    /\ UNCHANGED auxVars

\* the scan alone; the loop is synchronous code that runs to its end
NextScan == ScanRow \/ FinishScan

SpecScan == Init /\ [][NextScan]_vars /\ WF_vars(NextScan)

(***************************************************************************)
(* extractBlockData                                                        *)
(***************************************************************************)
\* extraction that coerces the value of every cell object, undefined included
extractRow_CoercesUndefined(sh, r, maxColumnCount) ==
    [j \in 1..maxColumnCount |->
        LET cell == Cell(sh, encode_cell(r - 1, j - 1)) IN
          IF cell.present THEN String(cell.v) ELSE <<>>]

extractRow(sh, r, maxColumnCount) ==
    [j \in 1..maxColumnCount |->
        LET cell == Cell(sh, encode_cell(r - 1, j - 1)) IN
          IF cell.present /\ cell.v.type # "undefined" THEN String(cell.v) ELSE <<>>]

extractBlockData(sh, b) ==
    [i \in 1..(b.endRow - b.startRow + 1) |->
        extractRow(sh, b.startRow + i - 1, b.maxColumnCount)]

\* extractBlockData(sheet, b) for a block b that detectTableBlocks(sheet) returned
ExtractBlockData ==
    /\ pc = "done"
    /\ \E i \in 1..Len(blocks) :
         /\ dataOf' = blocks[i]
         /\ data' = extractBlockData(sheet, blocks[i])
    /\ UNCHANGED <<sheet, ref, labelColumn, pc, row, blocks, currentBlock, blockStartRow>>
    /\ UNCHANGED clsVars
    /\ UNCHANGED auxVars

\* a block the caller built: any row range and width, rows of full width
CallerBlocks ==
    {createBlock([k \in 1..(x[2] - x[1] + 1) |->
                    [row |-> x[1] + k - 1, columnCount |-> x[3], labelValue |-> UndefinedStr]],
                 x[1]) :
        x \in {y \in (1..MaxRow) \X (1..MaxRow) \X (1..MaxCol) : y[1] <= y[2]}}

\* extractBlockData(sheet, b) for a block b that does not come from this sheet
ExtractCallerBlock ==
    /\ pc = "done"
    /\ \E b \in CallerBlocks :
         /\ dataOf' = b
         /\ data' = extractBlockData(sheet, b)
    /\ UNCHANGED <<sheet, ref, labelColumn, pc, row, blocks, currentBlock, blockStartRow>>
    /\ UNCHANGED clsVars
    /\ UNCHANGED auxVars

Next == ScanRow \/ FinishScan \/ ExtractBlockData \/ ExtractCallerBlock

Spec == Init /\ [][Next]_vars

(***************************************************************************)
(* detectTableBlocks called a second time on the same worksheet with the   *)
(* same label column: the entry of the function sets its locals anew.      *)
(***************************************************************************)
\* a second call whose block list is not set anew
DetectAgain_KeepsBlocks ==
    /\ pc = "done"
    /\ calls = "first"
    /\ firstBlocks' = blocks
    /\ calls' = "second"
    /\ pc' = "scan"
    /\ row' = 1
    /\ blocks' = blocks
    /\ currentBlock' = <<>>
    /\ blockStartRow' = -1
    /\ UNCHANGED <<sheet, ref, labelColumn, dataOf, data, workbook, loaded>>
    /\ UNCHANGED clsVars

DetectAgain ==
    /\ pc = "done"
    /\ calls = "first"
    /\ firstBlocks' = blocks
    /\ calls' = "second"
    /\ pc' = "scan"
    /\ row' = 1
    /\ blocks' = <<>>
    /\ currentBlock' = <<>>
    /\ blockStartRow' = -1
    /\ UNCHANGED <<sheet, ref, labelColumn, dataOf, data, workbook, loaded>>
    /\ UNCHANGED clsVars

NextTwice == ScanRow \/ FinishScan \/ DetectAgain

SpecTwice == Init /\ [][NextTwice]_vars

(***************************************************************************)
(* Title, header and data classification of one block.                     *)
(***************************************************************************)
\* a noHeader flag that is never honoured
IsTruthyFlag_Never(f) == FALSE

\* truthiness of options.noHeader (boolean | undefined)
IsTruthyFlag(f) == f = "true"

\* truthiness of a string | undefined: undefined and "" are falsy
IsTruthyStr(l) == l.def /\ l.s # <<>>

\* headerPattern.test(str)
test(pattern, str) == str \in pattern.accepts

\* title detection with <= in place of <
detectTitleRow_OrEqual(b) ==
    LET firstRow == b.rows[1] IN
      IF firstRow.columnCount <= b.maxColumnCount THEN firstRow ELSE UndefinedRow

detectTitleRow(b) ==
    LET firstRow == b.rows[1] IN
      IF firstRow.columnCount < b.maxColumnCount THEN firstRow ELSE UndefinedRow

\* dataRows.find(r => r.labelValue && headerPattern.test(r.labelValue))
FindMatch(rows, pattern) ==
    LET hits == {k \in 1..Len(rows) :
                   IsTruthyStr(rows[k].labelValue) /\ test(pattern, rows[k].labelValue.s)}
    IN IF hits = {} THEN UndefinedRow
       ELSE rows[CHOOSE k \in hits : \A m \in hits : k <= m]

\* header detection whose default is the first row of the block, title or not
detectHeaderRow_DefaultFirstRow(b, o) ==
    IF IsTruthyFlag(o.noHeader) THEN UndefinedRow
    ELSE LET title == detectTitleRow(b)
             dataRows == IF title # UndefinedRow THEN SubSeq(b.rows, 2, Len(b.rows)) ELSE b.rows
             match == IF o.headerPattern.def THEN FindMatch(dataRows, o.headerPattern)
                      ELSE UndefinedRow
         IN IF Len(dataRows) = 0 THEN UndefinedRow
            ELSE IF match # UndefinedRow THEN match
            ELSE b.rows[1]

\* header detection whose candidates always leave out the first row
detectHeaderRow_SkipsFirstRow(b, o) ==
    IF IsTruthyFlag(o.noHeader) THEN UndefinedRow
    ELSE LET dataRows == SubSeq(b.rows, 2, Len(b.rows))
             match == IF o.headerPattern.def THEN FindMatch(dataRows, o.headerPattern)
                      ELSE UndefinedRow
         IN IF Len(dataRows) = 0 THEN UndefinedRow
            ELSE IF match # UndefinedRow THEN match
            ELSE dataRows[1]

detectHeaderRow(b, o) ==
    IF IsTruthyFlag(o.noHeader) THEN UndefinedRow
    ELSE LET title == detectTitleRow(b)
             dataRows == IF title # UndefinedRow THEN SubSeq(b.rows, 2, Len(b.rows)) ELSE b.rows
             match == IF o.headerPattern.def THEN FindMatch(dataRows, o.headerPattern)
                      ELSE UndefinedRow
         IN IF Len(dataRows) = 0 THEN UndefinedRow
            ELSE IF match # UndefinedRow THEN match
            ELSE dataRows[1]

\* rows.filter(r => r.row !== excluded.row), applied only when excluded is defined
FilterOut(rows, excluded) ==
    LET Keep(r) == r.row # excluded.row IN
      IF excluded # UndefinedRow THEN SelectSeq(rows, Keep) ELSE rows

\* a structure whose data rows still hold the header row
analyzeBlockStructure_KeepsHeader(b, o) ==
    LET title == detectTitleRow(b)
        header == detectHeaderRow(b, o)
    IN [titleRow |-> title,
        headerRow |-> header,
        dataRows |-> FilterOut(b.rows, title)]

analyzeBlockStructure(b, o) ==
    LET title == detectTitleRow(b)
        header == detectHeaderRow(b, o)
    IN [titleRow |-> title,
        headerRow |-> header,
        dataRows |-> FilterOut(FilterOut(b.rows, title), header)]

\* let dataRows = block.rows, reassigned only by the two filters: when neither
\* runs, the returned dataRows is the array block.rows itself
dataRowsIsBlockRows(b, o) ==
    detectTitleRow(b) = UndefinedRow /\ detectHeaderRow(b, o) = UndefinedRow

(***************************************************************************)
(* Inputs of the classifier: blocks as detectTableBlocks builds them       *)
(* (consecutive rows, each with columnCount >= 1, closed by createBlock)   *)
(* and every options value over a small set of label strings.              *)
(***************************************************************************)
LabelStrings == {<<>>, <<"h">>}

LabelValues == {UndefinedStr} \cup {SomeStr(x) : x \in LabelStrings}

RowShapes == [columnCount : 1..MaxColumnCount, labelValue : LabelValues]

\* the blocks start at row 2, so that a row's number is not its position in rows
ClassifierBlocks ==
    {createBlock([k \in 1..Len(x) |->
                    [row |-> k + 1,
                     columnCount |-> x[k].columnCount,
                     labelValue |-> x[k].labelValue]], 2) :
        x \in UNION {[1..n -> RowShapes] : n \in 1..MaxBlockRows}}

HeaderPatterns == {[def |-> FALSE, accepts |-> {}]}
                    \cup {[def |-> TRUE, accepts |-> S] : S \in SUBSET LabelStrings}

HeaderDetectionOptions ==
    [headerPattern : HeaderPatterns, noHeader : {"undefined", "false", "true"}]

SegIdle ==
    /\ sheet = <<>>
    /\ ref = [def |-> FALSE, er |-> 0, ec |-> 0]
    /\ labelColumn = "A"
    /\ pc = "classify"
    /\ row = 1
    /\ blocks = <<>>
    /\ currentBlock = <<>>
    /\ blockStartRow = -1
    /\ dataOf = NoBlock
    /\ data = <<>>

InitClassify ==
    /\ SegIdle
    /\ block \in ClassifierBlocks
    /\ options = NoOptions
    /\ op = "none"
    /\ titleRow = UndefinedRow
    /\ headerRow = UndefinedRow
    /\ structure = NoStructure
    /\ shared = FALSE
    /\ AuxIdle

\* each action is one call; op, options and the result variable hold the
\* last call and its result, the other result variables are cleared
DetectTitleRow ==
    /\ pc = "classify"
    /\ op' = "detectTitleRow"
    /\ options' = NoOptions
    /\ titleRow' = detectTitleRow(block)
    /\ headerRow' = UndefinedRow
    /\ structure' = NoStructure
    /\ shared' = FALSE
    /\ UNCHANGED block
    /\ UNCHANGED segVars
    /\ UNCHANGED auxVars

DetectHeaderRow ==
    /\ pc = "classify"
    /\ \E o \in HeaderDetectionOptions :
         /\ options' = o
         /\ headerRow' = detectHeaderRow(block, o)
    /\ op' = "detectHeaderRow"
    /\ titleRow' = UndefinedRow
    /\ structure' = NoStructure
    /\ shared' = FALSE
    /\ UNCHANGED block
    /\ UNCHANGED segVars
    /\ UNCHANGED auxVars

AnalyzeBlockStructure ==
    /\ pc = "classify"
    /\ \E o \in HeaderDetectionOptions :
         /\ options' = o
         /\ structure' = analyzeBlockStructure(block, o)
         /\ shared' = dataRowsIsBlockRows(block, o)
    /\ op' = "analyzeBlockStructure"
    /\ titleRow' = UndefinedRow
    /\ headerRow' = UndefinedRow
    /\ UNCHANGED block
    /\ UNCHANGED segVars
    /\ UNCHANGED auxVars

NextClassify == DetectTitleRow \/ DetectHeaderRow \/ AnalyzeBlockStructure

SpecClassify == InitClassify /\ [][NextClassify]_vars

(***************************************************************************)
(* A caller that modifies the dataRows array analyzeBlockStructure         *)
(* returned (dataRows.pop()).  Arrays are JavaScript references: when the  *)
(* returned array is block.rows itself, the block's rows change with it.   *)
(* The run ends there, the block being no longer one the scan produced.    *)
(***************************************************************************)
ModifyDataRows ==
    /\ pc = "classify"
    /\ op = "analyzeBlockStructure"
    /\ Len(structure.dataRows) > 0
    /\ LET popped == SubSeq(structure.dataRows, 1, Len(structure.dataRows) - 1) IN
         /\ structure' = [structure EXCEPT !.dataRows = popped]
         /\ block' = (IF shared THEN [block EXCEPT !.rows = popped] ELSE block)
    /\ pc' = "modified"
    /\ UNCHANGED <<sheet, ref, labelColumn, row, blocks, currentBlock, blockStartRow,
                   dataOf, data>>
    /\ UNCHANGED <<options, op, titleRow, headerRow, shared>>
    /\ UNCHANGED auxVars

NextAlias == DetectTitleRow \/ DetectHeaderRow \/ AnalyzeBlockStructure \/ ModifyDataRows

SpecAlias == InitClassify /\ [][NextAlias]_vars

(***************************************************************************)
(* loadSheet.  XLSX.read is the parsing library: its result, the workbook, *)
(* is an input of the model.                                               *)
(***************************************************************************)
SheetNameTable == <<"Sheet1", "Sheet2", "Sheet3", "Sheet4">>

\* the sequences without repetition of at most MaxSheets of the first
\* MaxSheets sheet names
SheetNameLists ==
    {q \in UNION {[1..n -> {SheetNameTable[i] : i \in 1..MaxSheets}] : n \in 0..MaxSheets} :
        \A i, j \in 1..Len(q) : i # j => q[i] # q[j]}

\* the worksheets of a workbook: no cell, or one cell object at A1
WorkbookSheets ==
    {<<>>} \cup {[a \in {[col |-> "A", row |-> 1]} |-> c] : c \in CellObjects}

Workbooks ==
    {NoWorkbook}
      \cup UNION {{[SheetNames |-> [def |-> TRUE, names |-> q], Sheets |-> f] :
                     f \in [{q[i] : i \in 1..Len(q)} -> WorkbookSheets]} :
                  q \in SheetNameLists}

\* loadSheet that returns the sheet named last
loadSheet_LastSheet(wb) ==
    IF ~wb.SheetNames.def \/ Len(wb.SheetNames.names) = 0
    THEN [status |-> "thrown", error |-> "Workbook contains no sheets", sheet |-> <<>>]
    ELSE [status |-> "returned", error |-> "",
          sheet |-> wb.Sheets[wb.SheetNames.names[Len(wb.SheetNames.names)]]]

\* the code of loadSheet after XLSX.read returned the workbook wb
loadSheet(wb) ==
    IF ~wb.SheetNames.def \/ Len(wb.SheetNames.names) = 0
    THEN [status |-> "thrown", error |-> "Workbook contains no sheets", sheet |-> <<>>]
    ELSE [status |-> "returned", error |-> "", sheet |-> wb.Sheets[wb.SheetNames.names[1]]]

InitLoad ==
    /\ sheet = <<>>
    /\ ref = [def |-> FALSE, er |-> 0, ec |-> 0]
    /\ labelColumn = "A"
    /\ pc = "load"
    /\ row = 1
    /\ blocks = <<>>
    /\ currentBlock = <<>>
    /\ blockStartRow = -1
    /\ dataOf = NoBlock
    /\ data = <<>>
    /\ ClsIdle
    /\ firstBlocks = <<>>
    /\ calls = "first"
    /\ workbook \in Workbooks
    /\ loaded = NotLoaded

LoadSheet ==
    /\ pc = "load"
    /\ loaded' = loadSheet(workbook)
    /\ pc' = "loaded"
    /\ UNCHANGED <<sheet, ref, labelColumn, row, blocks, currentBlock, blockStartRow,
                   dataOf, data, firstBlocks, calls, workbook>>
    /\ UNCHANGED clsVars

NextLoad == LoadSheet

SpecLoad == InitLoad /\ [][NextLoad]_vars

(***************************************************************************)
(* Vocabulary of the claims, stated on the worksheet itself and not        *)
(* through the operators of the model of the code.                         *)
(***************************************************************************)
\* the cell at address a holds a value that is defined and not the empty string
HoldsValue(a) ==
    /\ a \in DOMAIN sheet
    /\ sheet[a].v.type \in {"string", "number"}
    /\ sheet[a].v # [type |-> "string", s |-> <<>>, n |-> 0]

\* rows and columns of the declared extent ("A1" when no range is declared)
ExtentRows == 1..(IF ref.def THEN ref.er + 1 ELSE 1)

ExtentCols == 1..(IF ref.def THEN ref.ec + 1 ELSE 1)

\* occupied columns of row r within the declared extent
OccupiedIn(r) == {c \in ExtentCols : HoldsValue([col |-> ColNames[c], row |-> r])}

\* the places <<i, k>> at which row number r occurs in the returned blocks
PlacesOf(r) ==
    {p \in (1..Len(blocks)) \X (1..MaxRow) :
        /\ p[2] <= Len(blocks[p[1]].rows)
        /\ blocks[p[1]].rows[p[2]].row = r}

\* C1 as stated: after detectTableBlocks every row holding a value in any cell
\* is in exactly one block, and no block has a row that holds no value
C1_EveryOccupiedRowInOneBlock ==
    pc = "done" =>
      \A r \in 1..MaxRow :
        /\ (\E a \in DOMAIN sheet : a.row = r /\ HoldsValue(a)) => Cardinality(PlacesOf(r)) = 1
        /\ PlacesOf(r) # {} => (\E a \in DOMAIN sheet : a.row = r /\ HoldsValue(a))

\* C1 amended: after detectTableBlocks every row of the declared extent that
\* holds a value in a column of the declared extent is in exactly one block,
\* and every row of a block is such a row
C1_EveryExtentRowInOneBlock ==
    pc = "done" =>
      \A r \in 1..(MaxRow + 1) :
        /\ (r \in ExtentRows /\ OccupiedIn(r) # {}) => Cardinality(PlacesOf(r)) = 1
        /\ PlacesOf(r) # {} => (r \in ExtentRows /\ OccupiedIn(r) # {})

\* a finished scan with two blocks, and a cell holding a value outside the extent
C1_Witness ==
    /\ pc = "done"
    /\ Len(blocks) = 2
    /\ \E a \in DOMAIN sheet : HoldsValue(a) /\ a.col \notin {ColNames[c] : c \in ExtentCols}

\* C2: the returned blocks are in increasing row order, two consecutive blocks
\* have at least one row between them, all rows between them are empty, and
\* the rows next to a block are empty or outside the extent
C2_BlocksOrderedSeparatedMaximal ==
    pc = "done" =>
      /\ \A i \in 1..(Len(blocks) - 1) :
           /\ blocks[i].endRow + 1 < blocks[i + 1].startRow
           /\ \A r \in (blocks[i].endRow + 1)..(blocks[i + 1].startRow - 1) : OccupiedIn(r) = {}
      /\ \A i \in 1..Len(blocks) :
           /\ blocks[i].startRow <= blocks[i].endRow
           /\ (blocks[i].startRow - 1) \in ExtentRows => OccupiedIn(blocks[i].startRow - 1) = {}
           /\ (blocks[i].endRow + 1) \in ExtentRows => OccupiedIn(blocks[i].endRow + 1) = {}

\* two blocks were returned, the second one ending at the last row of the extent
C2_Witness ==
    /\ pc = "done"
    /\ Len(blocks) = 2
    /\ blocks[2].endRow = MaxRow
    /\ blocks[1].startRow = 1

\* the block invariant of the data model
IsTableBlock(b) ==
    /\ Len(b.rows) >= 1
    /\ b.rows[1].row = b.startRow
    /\ b.rows[Len(b.rows)].row = b.endRow
    /\ \A k \in 1..Len(b.rows) : b.rows[k].row = b.startRow + k - 1
    /\ \A k \in 1..Len(b.rows) : b.rows[k].columnCount >= 1
    /\ \E k \in 1..Len(b.rows) : b.rows[k].columnCount = b.maxColumnCount
    /\ \A k \in 1..Len(b.rows) : b.rows[k].columnCount <= b.maxColumnCount

\* C3: every returned block satisfies the block invariant, and the columnCount
\* of each of its rows is the number of occupied columns of that row
C3_BlockInvariant ==
    pc = "done" =>
      \A i \in 1..Len(blocks) :
        /\ IsTableBlock(blocks[i])
        /\ \A k \in 1..Len(blocks[i].rows) :
             blocks[i].rows[k].columnCount = Cardinality(OccupiedIn(blocks[i].rows[k].row))

\* a returned block of two rows, the first narrower than the second
C3_Witness ==
    /\ pc = "done"
    /\ \E i \in 1..Len(blocks) :
         /\ Len(blocks[i].rows) = 2
         /\ blocks[i].rows[1].columnCount < blocks[i].rows[2].columnCount

\* C9: extractBlockData returns endRow - startRow + 1 rows of maxColumnCount
\* cells each, and a cell whose address holds no value is the empty string
C9_ExtractionRectangular ==
    dataOf # NoBlock =>
      /\ Len(data) = dataOf.endRow - dataOf.startRow + 1
      /\ \A i \in 1..Len(data) :
           /\ Len(data[i]) = dataOf.maxColumnCount
           /\ \A j \in 1..Len(data[i]) :
                ~HoldsValue([col |-> ColNames[j], row |-> dataOf.startRow + i - 1])
                  => data[i][j] = <<>>

\* an extraction of two rows or more that met a cell object without a value
\* and a cell holding a value
C9_Witness ==
    /\ dataOf # NoBlock
    /\ Len(data) >= 2
    /\ \E i \in 1..Len(data) : \E j \in 1..Len(data[i]) :
         LET a == [col |-> ColNames[j], row |-> dataOf.startRow + i - 1] IN
           a \in DOMAIN sheet /\ ~HoldsValue(a)
    /\ \E i \in 1..Len(data) : \E j \in 1..Len(data[i]) : data[i][j] # <<>>

\* the block handed to extractBlockData is one detectTableBlocks returned
FromDetect == \E i \in 1..Len(blocks) : blocks[i] = dataOf

\* C10 as stated: for a block detectTableBlocks returned, every cell of a row
\* of the block that holds a value (within the extent) appears string-coerced
\* in that row of the output, and the cells after the values of a row with
\* fewer occupied columns than maxColumnCount are empty strings
C10_ExtractKeepsEveryValue ==
    (dataOf # NoBlock /\ FromDetect) =>
      \A i \in 1..Len(data) :
        LET r == dataOf.startRow + i - 1 IN
          /\ \A c \in OccupiedIn(r) :
               \E j \in 1..Len(data[i]) :
                 data[i][j] = String(sheet[[col |-> ColNames[c], row |-> r]].v)
          /\ \A j \in (Cardinality(OccupiedIn(r)) + 1)..Len(data[i]) : data[i][j] = <<>>

(***************************************************************************)
(* Claims about the classifier (SpecClassify).                             *)
(***************************************************************************)
\* C4: for a block of two rows or more detectTitleRow returns the first row
\* if and only if rows[0].columnCount < maxColumnCount and returns undefined
\* otherwise; for a block of one row it returns undefined
C4_TitleRule ==
    op = "detectTitleRow" =>
      /\ Len(block.rows) >= 2 =>
           /\ block.rows[1].columnCount < block.maxColumnCount => titleRow = block.rows[1]
           /\ block.rows[1].columnCount >= block.maxColumnCount => titleRow = UndefinedRow
      /\ Len(block.rows) = 1 => titleRow = UndefinedRow

\* detectTitleRow returned the first row of a block whose later rows are wider
C4_Witness ==
    /\ op = "detectTitleRow"
    /\ Len(block.rows) >= 2
    /\ titleRow = block.rows[1]
    /\ titleRow.columnCount < block.rows[2].columnCount

\* the row numbers of a sequence of rows
RowNumbers(rows) == {rows[k].row : k \in 1..Len(rows)}

\* the row numbers of an optional row
RowNumberOf(r) == IF r = UndefinedRow THEN {} ELSE {r.row}

\* C5: analyzeBlockStructure returns as dataRows the rows of the block other
\* than the title row and the header row, in the block's order; the three
\* parts are pairwise disjoint, cover the block, and their sizes add up
C5_Partition ==
    op = "analyzeBlockStructure" =>
      LET t == structure.titleRow
          h == structure.headerRow
          d == structure.dataRows
      IN /\ \A k \in 1..Len(d) : \E m \in 1..Len(block.rows) : d[k] = block.rows[m]
         /\ \A k \in 1..(Len(d) - 1) : d[k].row < d[k + 1].row
         /\ t # UndefinedRow => \E m \in 1..Len(block.rows) : t = block.rows[m]
         /\ h # UndefinedRow => \E m \in 1..Len(block.rows) : h = block.rows[m]
         /\ Len(d) + Cardinality(RowNumberOf(t)) + Cardinality(RowNumberOf(h)) = Len(block.rows)
         /\ RowNumberOf(t) \cap RowNumberOf(h) = {}
         /\ RowNumberOf(t) \cap RowNumbers(d) = {}
         /\ RowNumberOf(h) \cap RowNumbers(d) = {}
         /\ RowNumberOf(t) \cup RowNumberOf(h) \cup RowNumbers(d) = RowNumbers(block.rows)

\* a structure with a title, a header found by pattern that is not the first
\* row after the title, and data rows on both sides of it
C5_Witness ==
    /\ op = "analyzeBlockStructure"
    /\ Len(block.rows) >= 3
    /\ structure.titleRow = block.rows[1]
    /\ structure.headerRow = block.rows[3]
    /\ structure.dataRows # <<>>

\* C6: with noHeader true, detectHeaderRow and analyzeBlockStructure yield no
\* header row, whatever the pattern, and the data rows are then all the rows
\* other than the title row
C6_NoHeader ==
    options.noHeader = "true" =>
      /\ op = "detectHeaderRow" => headerRow = UndefinedRow
      /\ op = "analyzeBlockStructure" =>
           /\ structure.headerRow = UndefinedRow
           /\ structure.dataRows =
                (IF structure.titleRow # UndefinedRow
                 THEN SubSeq(block.rows, 2, Len(block.rows)) ELSE block.rows)

\* noHeader true together with a pattern that accepts the label of a row
C6_Witness ==
    /\ op = "analyzeBlockStructure"
    /\ options.noHeader = "true"
    /\ options.headerPattern.def
    /\ \E k \in 1..Len(block.rows) :
         block.rows[k].labelValue.def
         /\ block.rows[k].labelValue.s \in options.headerPattern.accepts
    /\ structure.titleRow # UndefinedRow

\* the rows after the title row, or all rows when the first row is no title
Candidates ==
    IF block.rows[1].columnCount < block.maxColumnCount
    THEN SubSeq(block.rows, 2, Len(block.rows)) ELSE block.rows

\* the candidate positions whose labelValue is defined and accepted by the pattern
Matching ==
    {k \in 1..Len(Candidates) :
        /\ Candidates[k].labelValue.def
        /\ Candidates[k].labelValue.s \in options.headerPattern.accepts}

\* C7 as stated: with a pattern and noHeader not true, detectHeaderRow returns
\* the first candidate row whose labelValue is defined and matches, for every
\* defined labelValue, the empty string included
C7_FirstPatternMatch ==
    (op = "detectHeaderRow" /\ options.noHeader # "true" /\ options.headerPattern.def
       /\ Matching # {})
      => headerRow = Candidates[CHOOSE k \in Matching : \A m \in Matching : k <= m]

\* C8: with noHeader not true and no pattern, or a pattern that matches no
\* candidate row, detectHeaderRow returns the first candidate row: the second
\* row of the block when a title was detected, its first row otherwise
C8_DefaultHeader ==
    (op = "detectHeaderRow" /\ options.noHeader # "true"
       /\ (~options.headerPattern.def \/ Matching = {}))
      => headerRow = (IF block.rows[1].columnCount < block.maxColumnCount
                      THEN block.rows[2] ELSE block.rows[1])

\* a pattern was given, matched no candidate, and the row after the title
\* was returned
C8_Witness ==
    /\ op = "detectHeaderRow"
    /\ options.noHeader # "true"
    /\ options.headerPattern.def
    /\ options.headerPattern.accepts # {}
    /\ Matching = {}
    /\ block.rows[1].columnCount < block.maxColumnCount
    /\ headerRow = block.rows[2]

\* the title of the block by the rule of C4, as a set of row numbers
TitleRowNumbers ==
    IF block.rows[1].columnCount < block.maxColumnCount THEN {block.rows[1].row} ELSE {}

\* C17: for a block as detectTableBlocks builds it and noHeader not true, the
\* candidate rows are never empty, detectHeaderRow returns a row of the block
\* that is not the title row, and a block of one row is classified as a header
\* only: no title and no data rows
C17_HeaderDefinedAndNotTitle ==
    options.noHeader # "true" =>
      /\ op \in {"detectHeaderRow", "analyzeBlockStructure"} => Len(Candidates) >= 1
      /\ op = "detectHeaderRow" =>
           /\ headerRow # UndefinedRow
           /\ \E m \in 1..Len(block.rows) : headerRow = block.rows[m]
           /\ headerRow.row \notin TitleRowNumbers
           /\ headerRow # detectTitleRow(block)
      /\ op = "analyzeBlockStructure" =>
           /\ structure.headerRow # UndefinedRow
           /\ structure.headerRow # structure.titleRow
           /\ structure.headerRow.row \notin TitleRowNumbers
           /\ Len(block.rows) = 1 =>
                /\ structure.titleRow = UndefinedRow
                /\ structure.headerRow = block.rows[1]
                /\ structure.dataRows = <<>>

\* a block of one row analysed with the header search on
C17_Witness ==
    /\ op = "analyzeBlockStructure"
    /\ options.noHeader # "true"
    /\ Len(block.rows) = 1
    /\ structure.headerRow = block.rows[1]

(***************************************************************************)
(* Claims about repeated and degenerate scans.                             *)
(***************************************************************************)
\* startRow, endRow and maxColumnCount of each block of a result, in order
Summary(bs) ==
    [i \in 1..Len(bs) |-> <<bs[i].startRow, bs[i].endRow, bs[i].maxColumnCount>>]

\* C11: a second call of detectTableBlocks on the same grid with the same
\* label column returns as many blocks as the first one, with the same
\* startRow, endRow and maxColumnCount in the same order
C11_SecondCallSameBlocks ==
    (pc = "done" /\ calls = "second") => Summary(blocks) = Summary(firstBlocks)

\* a second call has returned, and the result has two blocks
C11_Witness ==
    /\ pc = "done"
    /\ calls = "second"
    /\ Len(firstBlocks) = 2
    /\ Len(blocks) = 2

\* C12: a grid without any occupied row, whether it declares a reference
\* range or not, yields an empty sequence of blocks
C12_NoOccupiedRowNoBlock ==
    (pc = "done" /\ \A a \in DOMAIN sheet : ~HoldsValue(a)) => blocks = <<>>

\* a finished scan of a declared range of several rows that holds cell
\* objects, none of them with a value
C12_Witness ==
    /\ pc = "done"
    /\ ref.def
    /\ ref.er >= 1
    /\ \E a \in DOMAIN sheet : a.row \in ExtentRows /\ sheet[a].v.type = "undefined"
    /\ \E a \in DOMAIN sheet : a.row \in ExtentRows /\ sheet[a].v.type = "string"
    /\ \A a \in DOMAIN sheet : ~HoldsValue(a)
    /\ blocks = <<>>

\* the labelValue the claim gives the row r: absent when the label cell holds
\* no value, else the trimmed text or the string coercion of the value
ClaimedLabel(r) ==
    LET a == [col |-> labelColumn, row |-> r] IN
      IF ~HoldsValue(a) THEN UndefinedStr
      ELSE IF sheet[a].v.type = "string" THEN SomeStr(Trim(sheet[a].v.s))
      ELSE SomeStr(String(sheet[a].v))

\* C13 as stated: in every row descriptor the Row Analyzer produced (those of
\* the returned blocks and of the block in progress) labelValue is absent
\* exactly when the label cell is unoccupied, and is the trimmed text or the
\* string coercion of the value otherwise
C13_LabelAbsentIffUnoccupied ==
    /\ \A i \in 1..Len(blocks) : \A k \in 1..Len(blocks[i].rows) :
         blocks[i].rows[k].labelValue = ClaimedLabel(blocks[i].rows[k].row)
    /\ \A k \in 1..Len(currentBlock) :
         currentBlock[k].labelValue = ClaimedLabel(currentBlock[k].row)

(***************************************************************************)
(* Claims about loadSheet (SpecLoad).                                      *)
(***************************************************************************)
\* the sheet names the workbook declares
DeclaredSheets ==
    IF workbook.SheetNames.def THEN workbook.SheetNames.names ELSE <<>>

\* C14: loadSheet returns the first sheet of the workbook when the workbook
\* declares a sheet, fails with the no-sheets error exactly when it declares
\* none, and no other operation ends in an error
C14_FirstSheetOrNoSheetsError ==
    /\ pc = "loaded" =>
         /\ DeclaredSheets # <<>> =>
              /\ loaded.status = "returned"
              /\ loaded.sheet = workbook.Sheets[DeclaredSheets[1]]
         /\ DeclaredSheets = <<>> =>
              /\ loaded.status = "thrown"
              /\ loaded.error = "Workbook contains no sheets"
    /\ loaded.status = "thrown" => (pc = "loaded" /\ DeclaredSheets = <<>>)

\* loadSheet returned the first of two sheets that differ
C14_Witness ==
    /\ pc = "loaded"
    /\ Len(DeclaredSheets) = 2
    /\ workbook.Sheets[DeclaredSheets[1]] # workbook.Sheets[DeclaredSheets[2]]
    /\ loaded.status = "returned"

(***************************************************************************)
(* Claims about the frame of the classifier calls (SpecAlias).             *)
(***************************************************************************)
\* C15 as stated: no call of detectTitleRow, detectHeaderRow or
\* analyzeBlockStructure, and no modification by the caller of a returned
\* dataRows array, changes the block passed in or the cell grid
C15_BlockAndGridUnchanged == [][block' = block /\ sheet' = sheet]_vars

(***************************************************************************)
(* Claims about the row loop of detectTableBlocks (SpecScan).              *)
(***************************************************************************)
\* the positions of the buffer at which row number r occurs
BufferPlacesOf(r) == {k \in 1..Len(currentBlock) : currentBlock[k].row = r}

\* what holds before and after every row step, and at the return
C16_LoopInvariant ==
    /\ pc = "scan" =>
         /\ (row - 1) \in ExtentRows \cup {0}
         /\ (blockStartRow = -1) <=> (currentBlock = <<>>)
         /\ currentBlock # <<>> =>
              /\ \A k \in 1..Len(currentBlock) :
                   /\ currentBlock[k].row = blockStartRow + k - 1
                   /\ currentBlock[k].columnCount >= 1
              /\ currentBlock[Len(currentBlock)].row = row - 1
              /\ \A i \in 1..Len(blocks) : blocks[i].endRow < blockStartRow
         /\ \A r \in 1..(MaxRow + 1) :
              Cardinality(PlacesOf(r)) + Cardinality(BufferPlacesOf(r))
                = (IF r < row /\ OccupiedIn(r) # {} THEN 1 ELSE 0)
    /\ pc = "done" =>
         /\ row - 1 = (IF ref.def THEN ref.er + 1 ELSE 1)
         /\ currentBlock # <<>> =>
              /\ blocks # <<>>
              /\ blocks[Len(blocks)].rows = currentBlock
              /\ blocks[Len(blocks)].startRow = blockStartRow

\* C16: during the scan the start-row marker is -1 exactly when the buffer is
\* empty, a non-empty buffer holds the consecutive rows from the start row to
\* the last scanned row, all with columnCount >= 1, every emitted block ends
\* before the buffer's start row, each row of 1..maxRow is visited once, and
\* the scan terminates, emitting the buffer as a trailing block
C16_ScanLoop == []C16_LoopInvariant /\ <>(pc = "done")

\* before a row step: a block was emitted and the buffer holds a later row
C16_Witness ==
    /\ pc = "scan"
    /\ blocks # <<>>
    /\ currentBlock # <<>>

====
